---- MODULE Spec2Model ----
(***************************************************************************)
(* A model of the extraction engine of ppt-to-learning:                    *)
(*   PptxExtractor.extract / _get_sections_mapping / _process_slide        *)
(*   (src/src/ppt_to_learning/extractors/pptx_extractor.py) and            *)
(*   SmartArtExtractor (src/src/ppt_to_learning/extractors/                *)
(*   smartart_extractor.py).                                               *)
(*                                                                         *)
(* Spec       the extraction of one file: section resolution step by step  *)
(*            (the section data is read from the document as the loops     *)
(*            reach it), then the slide loop and the metadata.             *)
(* SlideSpec  _process_slide applied to one slide drawn from bounded sets. *)
(* DiagramSpec  SmartArtExtractor.extract applied to one diagram payload    *)
(*            drawn from bounded sets, then the empty-node filter applied  *)
(*            once more to its result.                                     *)
(* BatchSpec  the loop of cli.main over the files discovered.              *)
(***************************************************************************)
EXTENDS Integers, Sequences, FiniteSets, TLC

\* ------------------------------------------------------------------ bounds
\* Slides of a deck.
MaxSlides == 2
\* Section entries read from the document (native and fallback together).
MaxSections == 3
\* Slide references read from the section entries (native and fallback together).
MaxRefs == 3
\* Shapes of a slide whose shapes vary in position.
MaxShapes == 3
\* Points of a diagram payload.
MaxPts == 3
\* Connections of a diagram payload whose structure varies.
MaxCxns == 3
\* Connections of a diagram payload whose icons vary.
MaxIconCxns == 2
\* Files discovered by one run of the command line.
MaxFiles == 3

\* ----------------------------------------------------------------- helpers
SeqsUpTo(S, k) == UNION {[1..m -> S] : m \in 0..k}

RECURSIVE Flatten(_)
Flatten(ss) == IF ss = <<>> THEN <<>> ELSE Head(ss) \o Flatten(Tail(ss))

RECURSIVE SumSeq(_)
SumSeq(s) == IF s = <<>> THEN 0 ELSE Head(s) + SumSeq(Tail(s))

Range(s) == {s[i] : i \in DOMAIN s}

SetMin(S) == CHOOSE x \in S : \A y \in S : x <= y

\* A Python dict as a function whose DOMAIN is the set of keys; d[k] = v.
Put(d, k, v) == [x \in (DOMAIN d) \cup {k} |-> IF x = k THEN v ELSE d[x]]

\* str.strip() on the sample texts: "" and " " are blank, "t" is not.
Strip(t) == IF t = " " THEN "" ELSE t

\* ===================================================== SmartArtExtractor
\* A diagram payload is a record
\*   [kind, pts, cxns, layout, ids]
\* kind: "notsmartart" (_is_smartart false), "norelid" (_get_rel_id None),
\*       "missing" (related_part raises KeyError), "malformed" (the blob does
\*       not parse: etree.fromstring raises), "parsed".
\* pts:  the dgm:pt elements in document order; point i has modelId i and
\*       [type, text, icon, alt, assoc]: type "doc" marks the data root, icon
\*       says an icon blob was extracted, alt that alt text was found, assoc
\*       is the presAssocID (NoId when absent).
\* cxns: the dgm:cxn elements in document order, [src, dest, type], type in
\*       "presOf", "presParOf", "parOf", "other", "absent" (no type attribute).

\* Python None, for ids and for icon paths.
NoId == 0
NoIcon == 0

\* _parse_points: id -> SmartArtNode, in document order.  The icon path
\* sa_{modelId}.{ext} is keyed by the point's id.
ParsePoints(pts) ==
  [i \in 1..Len(pts) |->
     [id |-> i, text |-> pts[i].text,
      icon |-> IF pts[i].icon THEN i ELSE NoIcon,
      icon_alt |-> IF pts[i].alt THEN i ELSE NoIcon,
      level |-> 0, children |-> <<>>]]

\* root.find(".//dgm:pt[@type='doc']"): the first doc point, None without one.
DataRootId(pts) ==
  LET docs == {i \in 1..Len(pts) : pts[i].type = "doc"}
  IN IF docs = {} THEN NoId ELSE SetMin(docs)

\* Step 2: the maps built from the connections, cxn.get("type", "").
RECURSIVE VisualToData(_)
VisualToData(cxns) ==
  IF cxns = <<>> THEN <<>>
  ELSE LET c == cxns[Len(cxns)]
           m == VisualToData(SubSeq(cxns, 1, Len(cxns) - 1))
       IN IF c.type = "presOf" THEN Put(m, c.dest, c.src) ELSE m

RECURSIVE VisualParent(_)
VisualParent(cxns) ==
  IF cxns = <<>> THEN <<>>
  ELSE LET c == cxns[Len(cxns)]
           m == VisualParent(SubSeq(cxns, 1, Len(cxns) - 1))
       IN IF c.type = "presParOf" THEN Put(m, c.dest, c.src) ELSE m

RECURSIVE VisualChildren(_)
VisualChildren(cxns) ==
  IF cxns = <<>> THEN <<>>
  ELSE LET c == cxns[Len(cxns)]
           m == VisualChildren(SubSeq(cxns, 1, Len(cxns) - 1))
       IN IF c.type = "presParOf"
          THEN Put(m, c.src, (IF c.src \in DOMAIN m THEN m[c.src] ELSE <<>>) \o <<c.dest>>)
          ELSE m

\* Step 3: presAssocID of each point, written after the presOf entries.
RECURSIVE WithAssoc(_,_,_)
WithAssoc(v2d, pts, i) ==
  IF i > Len(pts) THEN v2d
  ELSE WithAssoc(IF pts[i].assoc # NoId THEN Put(v2d, i, pts[i].assoc) ELSE v2d, pts, i + 1)

\* _find_data_owner: the while loop, one iteration per call.
RECURSIVE FindDataOwnerFrom(_,_,_,_,_,_)
FindDataOwnerFrom(curr, visited, v2d, vpar, vchild, root_id) ==
  IF curr = NoId \/ curr \in visited THEN NoId
  ELSE IF curr \in DOMAIN v2d /\ v2d[curr] # root_id THEN v2d[curr]
  ELSE LET parent == IF curr \in DOMAIN vpar THEN vpar[curr] ELSE NoId
           sibs == IF parent # NoId /\ parent \in DOMAIN vchild THEN vchild[parent] ELSE <<>>
           hits == {k \in DOMAIN sibs : /\ sibs[k] # curr
                                         /\ sibs[k] \in DOMAIN v2d
                                         /\ v2d[sibs[k]] # root_id}
       IN IF hits # {} THEN v2d[sibs[SetMin(hits)]]
          ELSE FindDataOwnerFrom(parent, visited \cup {curr}, v2d, vpar, vchild, root_id)

FindDataOwner(vid, v2d, vpar, vchild, root_id) ==
  FindDataOwnerFrom(vid, {}, v2d, vpar, vchild, root_id)

\* MoveIcon without lines 72-73: the icon stays on the point it came from.
MoveIconCopy(nodes, mid, owner_id) ==
  IF owner_id # NoId /\ owner_id # mid /\ owner_id \in DOMAIN nodes
     /\ nodes[owner_id].icon = NoIcon
  THEN [nodes EXCEPT ![owner_id].icon = nodes[mid].icon,
                     ![owner_id].icon_alt = nodes[mid].icon_alt]
  ELSE nodes

\* Step 4: one iteration of the loop over nodes_map.items().
\* Lines 67-73: the move of mid's icon to owner_id.
MoveIcon(nodes, mid, owner_id) ==
  IF owner_id # NoId /\ owner_id # mid /\ owner_id \in DOMAIN nodes
     /\ nodes[owner_id].icon = NoIcon
  THEN [nodes EXCEPT ![owner_id].icon = nodes[mid].icon,
                     ![owner_id].icon_alt = nodes[mid].icon_alt,
                     ![mid].icon = NoIcon,
                     ![mid].icon_alt = NoIcon]
  ELSE nodes

AssignIcon(nodes, mid, v2d, vpar, vchild, root_id) ==
  IF nodes[mid].icon = NoIcon THEN nodes
  ELSE MoveIcon(nodes, mid, FindDataOwner(mid, v2d, vpar, vchild, root_id))

RECURSIVE AssignIcons(_,_,_,_,_,_)
AssignIcons(nodes, i, v2d, vpar, vchild, root_id) ==
  IF i > Len(nodes) THEN nodes
  ELSE AssignIcons(AssignIcon(nodes, i, v2d, vpar, vchild, root_id), i + 1,
                   v2d, vpar, vchild, root_id)

\* Step 5: the parOf connections, cxn.get("type", "parOf").
RECURSIVE StructuralConns(_)
StructuralConns(cxns) ==
  IF cxns = <<>> THEN <<>>
  ELSE LET c == Head(cxns)
       IN (IF c.type \in {"parOf", "absent"} THEN <<(<<c.src, c.dest>>)>> ELSE <<>>)
          \o StructuralConns(Tail(cxns))

\* presentation_points = set(visual_to_data.keys()) | set(visual_parent.keys())
PresentationPoints(v2d, vpar) == (DOMAIN v2d) \cup (DOMAIN vpar)

\* _build_tree, the adjacency: children[s] in connection order, has_parent.
RECURSIVE ChildrenOf(_,_,_)
ChildrenOf(nodes, conns, mid) ==
  IF conns = <<>> THEN <<>>
  ELSE LET c == Head(conns)
       IN (IF c[1] = mid /\ c[1] \in DOMAIN nodes /\ c[2] \in DOMAIN nodes
           THEN <<c[2]>> ELSE <<>>)
          \o ChildrenOf(nodes, Tail(conns), mid)

HasParent(nodes, conns) ==
  {conns[k][2] : k \in {j \in DOMAIN conns : conns[j][1] \in DOMAIN nodes
                                           /\ conns[j][2] \in DOMAIN nodes}}

\* build(mid, lvl): the node objects are shared and mutated, so the build is a
\* pass over the heap st.h (id -> node, children held as ids).  A recursion
\* deeper than the number of nodes is on a cycle: Python recurses until
\* RecursionError, st.err.
RECURSIVE Build(_,_,_,_,_,_,_)
RECURSIVE BuildChildren(_,_,_,_,_,_,_,_,_)
Build(st, nodes, conns, pres, mid, lvl, fuel) ==
  IF st.err THEN st
  ELSE IF fuel = 0 THEN [st EXCEPT !.err = TRUE]
  ELSE BuildChildren([st EXCEPT !.h[mid].level = lvl, !.h[mid].children = <<>>],
                     nodes, conns, pres, mid, ChildrenOf(nodes, conns, mid), 1, lvl, fuel)

\* n.children.append(build(cid, lvl + 1)), with s1 the state after build.
AppendChild(s1, mid, cid) ==
  IF s1.err THEN s1 ELSE [s1 EXCEPT !.h[mid].children = Append(@, cid)]

\* for cid in children[mid]: kids is children[mid], k the position in it.
BuildChildren(st, nodes, conns, pres, mid, kids, k, lvl, fuel) ==
  IF st.err \/ k > Len(kids) THEN st
  ELSE IF kids[k] \in pres
       THEN BuildChildren(st, nodes, conns, pres, mid, kids, k + 1, lvl, fuel)
       ELSE BuildChildren(AppendChild(Build(st, nodes, conns, pres, kids[k], lvl + 1, fuel - 1),
                                      mid, kids[k]),
                          nodes, conns, pres, mid, kids, k + 1, lvl, fuel)

\* roots = [build(m, 0) for m in nodes_map if m not in has_parent and m not in pres_points]
StructuralRoots(nodes, conns, pres) ==
  LET hp == HasParent(nodes, conns)
      F[i \in 0..Len(nodes)] ==
        IF i = 0 THEN <<>>
        ELSE F[i - 1] \o (IF i \notin hp /\ i \notin pres THEN <<i>> ELSE <<>>)
  IN F[Len(nodes)]

\* BuildRoots with the roots built at level 1.
RECURSIVE BuildRootsLevelOne(_,_,_,_,_,_)
BuildRootsLevelOne(st, nodes, conns, pres, roots, k) ==
  IF st.err \/ k > Len(roots) THEN st
  ELSE BuildRootsLevelOne(Build(st, nodes, conns, pres, roots[k], 1, Len(nodes) + 1),
                          nodes, conns, pres, roots, k + 1)

RECURSIVE BuildRoots(_,_,_,_,_,_)
BuildRoots(st, nodes, conns, pres, roots, k) ==
  IF st.err \/ k > Len(roots) THEN st
  ELSE BuildRoots(Build(st, nodes, conns, pres, roots[k], 0, Len(nodes) + 1),
                  nodes, conns, pres, roots, k + 1)

\* The loop over roots: a textless, iconless root with children is replaced
\* by its children.
RECURSIVE CollapseRoots(_,_)
CollapseRoots(h, roots) ==
  IF roots = <<>> THEN <<>>
  ELSE LET r == h[Head(roots)]
       IN (IF Strip(r.text) = "" /\ r.icon = NoIcon /\ r.children # <<>>
           THEN r.children ELSE <<r.id>>)
          \o CollapseRoots(h, Tail(roots))

\* _build_tree once the roots are built: [h, err, final].
BuiltTree(st, roots) ==
  [h |-> st.h, err |-> st.err,
   final |-> IF st.err THEN <<>> ELSE CollapseRoots(st.h, roots)]

BuildTreeFrom(nodes, conns, pres, roots) ==
  BuiltTree(BuildRoots([h |-> nodes, err |-> FALSE], nodes, conns, pres, roots, 1), roots)

\* _build_tree: [h, err, final].
BuildTree(nodes, conns, pres) ==
  BuildTreeFrom(nodes, conns, pres, StructuralRoots(nodes, conns, pres))

\* _filter_empty_nodes over a list of node objects: [h, res].
\* if n.text.strip() or n.icon or n.children
KeepNode(n) == Strip(n.text) # "" \/ n.icon # NoIcon \/ n.children # <<>>

\* FilterOne with the test of line 183 made on the children as they were
\* before line 182 filtered them.
FilterOneTestFirst(res, n, sub) ==
  [h |-> [sub.h EXCEPT ![n].children = sub.res],
   res |-> IF KeepNode(sub.h[n]) THEN Append(res, n) ELSE res]

\* One node of the loop, with sub the result of filtering its children.
FilterOne(res, n, sub) ==
  [h |-> [sub.h EXCEPT ![n].children = sub.res],
   res |-> IF KeepNode([sub.h[n] EXCEPT !.children = sub.res]) THEN Append(res, n) ELSE res]

RECURSIVE FilterEmptyNodes(_,_,_)
FilterEmptyNodes(st, ids, k) ==
  IF k > Len(ids) THEN st
  ELSE FilterEmptyNodes(
         FilterOne(st.res, ids[k],
                   FilterEmptyNodes([h |-> st.h, res |-> <<>>], st.h[ids[k]].children, 1)),
         ids, k + 1)

\* SmartArtNode.to_dict
RECURSIVE ToDict(_,_)
ToDict(h, n) ==
  [id |-> h[n].id, text |-> h[n].text,
   children |-> [k \in 1..Len(h[n].children) |-> ToDict(h, h[n].children[k])],
   level |-> h[n].level, icon |-> h[n].icon, icon_alt |-> h[n].icon_alt]

\* visual_to_data after steps 2 and 3.
VisualToDataMap(dgm) == WithAssoc(VisualToData(dgm.cxns), dgm.pts, 1)

\* The node objects after step 4 (icons assigned).
IconsAssigned(dgm) ==
  AssignIcons(ParsePoints(dgm.pts), 1, VisualToDataMap(dgm), VisualParent(dgm.cxns),
              VisualChildren(dgm.cxns), DataRootId(dgm.pts))

\* Lines 85-88: the dict returned, f the filtered roots [h, res].
ExtractResult(layout, f) ==
  <<[layout |-> layout, nodes |-> [k \in 1..Len(f.res) |-> ToDict(f.h, f.res[k])]]>>

\* Lines 84-92 after _build_tree: a RecursionError is caught, None returned.
ExtractFiltered(layout, bt) ==
  IF bt.err THEN <<>>
  ELSE ExtractResult(layout, FilterEmptyNodes([h |-> bt.h, res |-> <<>>], bt.final, 1))

\* SmartArtExtractor.extract: <<>> is None, <<[layout, nodes]>> the dict.
SmartArtExtract(dgm) ==
  IF dgm.kind # "parsed" THEN <<>>
  ELSE ExtractFiltered(dgm.layout,
                       BuildTree(IconsAssigned(dgm), StructuralConns(dgm.cxns),
                                 PresentationPoints(VisualToDataMap(dgm),
                                                    VisualParent(dgm.cxns))))

\* ========================================================= PptxExtractor
\* A shape is a record
\*   [shape_id, name, has_top, top, has_left, left, video, has_table, table,
\*    graphic, dgm, image, has_text_frame, paras, fault]
\* has_top / has_left: hasattr(s, 'top') / hasattr(s, 'left').
\* video:   [found, link, media, ctype]: a:videoFile found; the r:link target
\*          ("" when there is no r:link, "KeyError" when target_ref raises);
\*          media "none" (no p14:media embed), "ok", "norel" (related_part
\*          raises), "nowrite" (the file cannot be written); the content type.
\* graphic: is_graphic_frame; dgm the diagram payload behind it.
\* image:   "none" (no image.blob), "blob", "nowrite" (open/write raises).
\* paras:   text_frame.paragraphs, each [text, level, url], url "" when the
\*          paragraph has no hyperlinked run.
\* fault:   the operation on the shape that raises: "none", "table" (reading
\*          a cell of the table), "shape_type" (the shape_type property),
\*          "text" (reading the paragraphs in _process_text_frame).
\* A slide is [slide_id, shapes, title]: shapes in document order, title the
\* index of slide.shapes.title in shapes, 0 when the slide has none.
\* Every block carries, beside its fields, the shape it comes from (of) and
\* the branch that emitted it (by).

\* SortKey with the two coordinates swapped: (left, top).
SortKeyLeftFirst(s) ==
  <<IF s.has_left THEN s.left ELSE 0, IF s.has_top THEN s.top ELSE 0>>

\* The key of shapes.sort: (top, left), 0 for a missing attribute.
SortKey(s) == <<IF s.has_top THEN s.top ELSE 0, IF s.has_left THEN s.left ELSE 0>>

\* Python's tuple comparison a <= b on the keys.
KeyLeq(a, b) == a[1] < b[1] \/ (a[1] = b[1] /\ a[2] <= b[2])

\* list.sort(key=...): stable, so a shape goes after the shapes whose key is
\* less than or equal to its own.
RECURSIVE InsertSorted(_,_)
InsertSorted(sorted, s) ==
  IF sorted = <<>> THEN <<s>>
  ELSE IF KeyLeq(SortKey(Head(sorted)), SortKey(s))
       THEN <<Head(sorted)>> \o InsertSorted(Tail(sorted), s)
       ELSE <<s>> \o sorted

RECURSIVE SortShapes(_)
SortShapes(shapes) ==
  IF shapes = <<>> THEN <<>>
  ELSE InsertSorted(SortShapes(SubSeq(shapes, 1, Len(shapes) - 1)), shapes[Len(shapes)])

\* text_frame.text: the paragraphs joined; blank iff every paragraph is blank.
FrameIsBlank(paras) == \A k \in DOMAIN paras : Strip(paras[k].text) = ""

\* shape.text.strip() of the sample texts: the first non-blank paragraph.
FrameText(paras) ==
  LET nb == {k \in DOMAIN paras : Strip(paras[k].text) # ""}
  IN IF nb = {} THEN "" ELSE Strip(paras[SetMin(nb)].text)

\* _extract_hyperlink_from_text_frame: the first paragraph url, "" for None.
HyperlinkFromTextFrame(paras) ==
  LET hs == {k \in DOMAIN paras : paras[k].url # ""}
  IN IF hs = {} THEN "" ELSE paras[SetMin(hs)].url

\* target.startswith('http://') or target.startswith('https://')
IsHttpTarget(target) == target \in {"http://v", "https://youtu.be/x"}

\* ext_map.get(content_type, '.mp4')
VideoExt(ctype) ==
  CASE ctype = "video/mp4" -> ".mp4"
    [] ctype = "video/x-m4v" -> ".m4v"
    [] ctype = "video/webm" -> ".webm"
    [] ctype = "video/quicktime" -> ".mov"
    [] ctype = "video/x-msvideo" -> ".avi"
    [] OTHER -> ".mp4"

\* f"slide_{order}_{shape_id}{ext}"
MediaName(order, shape_id, ext) == <<"slide", order, shape_id, ext>>

\* _extract_video_info: <<>> is None, else <<dict>> with url or src, and title.
ExtractVideoInfo(shape, order) ==
  LET v == shape.video
  IN IF ~v.found THEN <<>>
     ELSE IF v.link = "KeyError" THEN <<>>
     ELSE IF v.link # "" /\ IsHttpTarget(v.link)
          THEN <<[url |-> v.link, title |-> shape.name]>>
     ELSE IF v.media = "ok"
          THEN <<[src |-> MediaName(order, shape.shape_id, VideoExt(v.ctype)),
                  title |-> shape.name]>>
     ELSE <<>>

\* Lines 132-138: the blocks for video_info.
VideoInfoBlocks(shape, info) ==
  IF info = <<>> THEN <<>>
  ELSE IF "url" \in DOMAIN info[1]
       THEN <<[type |-> "link", text |-> info[1].title, url |-> info[1].url,
               of |-> shape.shape_id, by |-> "video"]>>
  ELSE IF "src" \in DOMAIN info[1]
       THEN <<[type |-> "video", src |-> info[1].src, title |-> info[1].title,
               of |-> shape.shape_id, by |-> "video"]>>
  ELSE <<>>

\* Lines 131-138: the video probe.
VideoBlocks(shape, order) == VideoInfoBlocks(shape, ExtractVideoInfo(shape, order))

\* _process_text_frame: one ListItem per non-blank paragraph, one ListBlock.
RECURSIVE ListItems(_)
ListItems(paras) ==
  IF paras = <<>> THEN <<>>
  ELSE (IF Strip(Head(paras).text) = "" THEN <<>>
        ELSE <<[text |-> Strip(Head(paras).text), level |-> Head(paras).level,
                url |-> Head(paras).url]>>)
       \o ListItems(Tail(paras))

ListBlockOf(shape, items) ==
  IF items = <<>> THEN <<>>
  ELSE <<[type |-> "list", style |-> "bullet", items |-> items,
          of |-> shape.shape_id, by |-> "text"]>>

ProcessTextFrame(shape) == ListBlockOf(shape, ListItems(shape.paras))

\* Lines 188-192: the text branch.
TextBranch(shape) ==
  IF shape.has_text_frame /\ ~FrameIsBlank(shape.paras) THEN ProcessTextFrame(shape) ELSE <<>>

\* What one shape gives: the blocks appended, the images counted, the files
\* written ([path, blob], blob naming the data written), and whether an
\* exception left the loop body (raised).
Emit(blocks, imgs, writes) ==
  [blocks |-> blocks, imgs |-> imgs, raised |-> FALSE, writes |-> writes]
Raised == [blocks |-> <<>>, imgs |-> 0, raised |-> TRUE, writes |-> <<>>]

\* Lines 188-192 with the exception that _process_text_frame may raise.
TextOrRaise(shape) ==
  IF shape.has_text_frame /\ ~FrameIsBlank(shape.paras) /\ shape.fault = "text"
  THEN Raised
  ELSE Emit(TextBranch(shape), 0, <<>>)

\* ImageBranch with image_count += 1 moved in front of the write.
ImageBranchCountsFirst(shape, order) ==
  IF shape.image = "blob"
  THEN Emit(<<[type |-> "image", src |-> MediaName(order, shape.shape_id, ".png"),
               alt |-> shape.name, of |-> shape.shape_id, by |-> "image"]>>,
            1,
            <<[path |-> MediaName(order, shape.shape_id, ".png"),
               blob |-> <<"image", order, shape.shape_id>>]>>)
  ELSE [TextOrRaise(shape) EXCEPT !.imgs = IF shape.image = "nowrite" THEN 1 ELSE 0]

\* Lines 172-185: the image branch; on a failed write the except clause logs
\* and control reaches the text branch.
ImageBranch(shape, order) ==
  IF shape.image = "blob"
  THEN Emit(<<[type |-> "image", src |-> MediaName(order, shape.shape_id, ".png"),
               alt |-> shape.name, of |-> shape.shape_id, by |-> "image"]>>,
            1,
            <<[path |-> MediaName(order, shape.shape_id, ".png"),
               blob |-> <<"image", order, shape.shape_id>>]>>)
  ELSE TextOrRaise(shape)

\* if sa_data: a dict with keys is true, None is false.
Truthy(sa_data) == sa_data # <<>>

\* Lines 160-168: with sa_data a SmartArt block and continue; without it
\* control reaches the image branch.
SmartArtOrNext(shape, order, sa_data) ==
  IF Truthy(sa_data)
  THEN Emit(<<[type |-> "smart_art", layout |-> sa_data[1].layout,
               nodes |-> sa_data[1].nodes,
               of |-> shape.shape_id, by |-> "smartart"]>>, 0, <<>>)
  ELSE ImageBranch(shape, order)

\* _extract_icon_and_alt, lines 154-157: the icon of point i of a parsed
\* payload is written to sa_{modelId}.{ext}; ids names the modelIds of the
\* payload, point i of payload ids having the modelId (ids, i).
RECURSIVE IconWritesFrom(_,_,_,_)
IconWritesFrom(shape, order, pts, i) ==
  IF i > Len(pts) THEN <<>>
  ELSE (IF pts[i].icon
        THEN <<[path |-> <<"sa", shape.dgm.ids, i>>,
                blob |-> <<"icon", order, shape.shape_id, i>>]>>
        ELSE <<>>)
       \o IconWritesFrom(shape, order, pts, i + 1)

IconWrites(shape, order) ==
  IF shape.dgm.kind = "parsed" THEN IconWritesFrom(shape, order, shape.dgm.pts, 1) ELSE <<>>

\* The files written before the branch taken, in front of its own.
WithWrites(writes, rest) == [rest EXCEPT !.writes = writes \o @]

\* Lines 157-168: the SmartArt branch; shape.shape_type may raise.
SmartArtBranch(shape, order) ==
  IF shape.fault = "shape_type" THEN Raised
  ELSE IF shape.graphic
       THEN WithWrites(IconWrites(shape, order),
                       SmartArtOrNext(shape, order, SmartArtExtract(shape.dgm)))
       ELSE ImageBranch(shape, order)

\* Line 323: the file written for a Video block.
RECURSIVE VideoWrites(_)
VideoWrites(blocks) ==
  IF blocks = <<>> THEN <<>>
  ELSE (IF Head(blocks).type = "video"
        THEN <<[path |-> Head(blocks).src,
                blob |-> <<"video", Head(blocks).src[2], Head(blocks).src[3]>>]>>
        ELSE <<>>)
       \o VideoWrites(Tail(blocks))

\* Blocks put in front of the blocks of the branch taken.
WithVideo(first, rest) ==
  [blocks |-> first \o rest.blocks, imgs |-> rest.imgs, raised |-> rest.raised,
   writes |-> VideoWrites(first) \o rest.writes]

\* TableBranch without the continue of line 154: the later branches run too.
TableBranchNoContinue(shape, order) ==
  IF shape.has_table
  THEN WithVideo(<<[type |-> "table", rows |-> shape.table,
                    of |-> shape.shape_id, by |-> "table"]>>,
                 SmartArtBranch(shape, order))
  ELSE SmartArtBranch(shape, order)

\* Lines 145-154: the table branch; reading a cell may raise.
TableBranch(shape, order) ==
  IF shape.has_table
  THEN IF shape.fault = "table" THEN Raised
       ELSE Emit(<<[type |-> "table",
                    rows |-> [r \in DOMAIN shape.table |->
                                [c \in DOMAIN shape.table[r] |-> Strip(shape.table[r][c])]],
                    of |-> shape.shape_id, by |-> "table"]>>, 0, <<>>)
  ELSE SmartArtBranch(shape, order)

\* ShapeBlocks with the title test of line 141 before the video probe.
ShapeBlocksTitleFirst(shape, is_title, order) ==
  IF is_title THEN Emit(<<>>, 0, <<>>)
  ELSE WithVideo(VideoBlocks(shape, order), TableBranch(shape, order))

\* One iteration of the loop over the sorted shapes (lines 129-192).
ShapeBlocks(shape, is_title, order) ==
  WithVideo(VideoBlocks(shape, order),
            IF is_title THEN Emit(<<>>, 0, <<>>) ELSE TableBranch(shape, order))

\* Lines 114-124: the title blocks.
TitleBlocks(slide) ==
  IF slide.title = 0 THEN <<>>
  ELSE LET t == slide.shapes[slide.title]
           title == FrameText(t.paras)
           title_url == IF t.has_text_frame THEN HyperlinkFromTextFrame(t.paras) ELSE ""
       IN IF title = "" THEN <<>>
          ELSE <<[type |-> "heading", text |-> title, level |-> 1,
                  of |-> t.shape_id, by |-> "title"]>>
               \o (IF title_url # ""
                   THEN <<[type |-> "link", text |-> title, url |-> title_url,
                           of |-> t.shape_id, by |-> "title"]>>
                   ELSE <<>>)

SlideTitle(slide) ==
  IF slide.title = 0 THEN "" ELSE FrameText(slide.shapes[slide.title].paras)

\* The loop over the sorted shapes: an exception in one iteration ends it.
Both(one, more) ==
  IF one.raised THEN one
  ELSE [blocks |-> one.blocks \o more.blocks, imgs |-> one.imgs + more.imgs,
        raised |-> more.raised, writes |-> one.writes \o more.writes]

RECURSIVE ShapeLoop(_,_,_)
ShapeLoop(shapes, title_id, order) ==
  IF shapes = <<>> THEN Emit(<<>>, 0, <<>>)
  ELSE Both(ShapeBlocks(Head(shapes), Head(shapes).shape_id = title_id, order),
            ShapeLoop(Tail(shapes), title_id, order))

\* shape == slide.shapes.title compares with this shape; 0 without a title.
TitleId(slide) == IF slide.title = 0 THEN 0 ELSE slide.shapes[slide.title].shape_id

\* SlideOf with a 0-based order.
SlideOfZeroBased(slide, order, loop) ==
  [slide_obj |-> [order |-> order - 1, title |-> SlideTitle(slide),
                  content |-> TitleBlocks(slide) \o loop.blocks,
                  src |-> slide.slide_id],
   imgs |-> loop.imgs, raised |-> loop.raised, writes |-> loop.writes]

\* Lines 197-205: the Slide and the image count; src is the slide it was made from.
SlideOf(slide, order, loop) ==
  [slide_obj |-> [order |-> order, title |-> SlideTitle(slide),
                  content |-> TitleBlocks(slide) \o loop.blocks,
                  src |-> slide.slide_id],
   imgs |-> loop.imgs, raised |-> loop.raised, writes |-> loop.writes]

\* _process_slide: [slide_obj, imgs], with the files written and raised.
ProcessSlide(slide, order) ==
  SlideOf(slide, order, ShapeLoop(SortShapes(slide.shapes), TitleId(slide), order))

\* ------------------------------------------------------------ input sets
NoVideo == [found |-> FALSE, link |-> "", media |-> "none", ctype |-> "video/mp4"]

VideoKinds ==
  {NoVideo}
  \cup {[found |-> TRUE, link |-> l, media |-> m, ctype |-> "video/mp4"] :
          l \in {"", "http://v", "https://youtu.be/x", "local.mp4", "KeyError"},
          m \in {"none", "ok", "norel", "nowrite"}}
  \cup {[found |-> TRUE, link |-> l, media |-> "ok", ctype |-> "video/webm"] :
          l \in {"", "https://youtu.be/x", "local.mp4"}}

Para(t, u) == [text |-> t, level |-> 0, url |-> u]

ParaSamples ==
  {<<>>, <<Para(" ", "")>>, <<Para("t", "")>>, <<Para("", ""), Para("t", "u")>>}

Pt(ty, tx, ic) == [type |-> ty, text |-> tx, icon |-> ic, alt |-> ic, assoc |-> NoId]
Cxn(s, d, ty) == [src |-> s, dest |-> d, type |-> ty]
Dgm(k, ps, cs) == [kind |-> k, pts |-> ps, cxns |-> cs, layout |-> "layout", ids |-> "a"]

NoDgm == Dgm("notsmartart", <<>>, <<>>)

\* Diagram payloads behind the graphic frames of the sample slides: the four
\* ways to no payload, no points, points only, a doc root over two children,
\* a doc root alone, a presentation point, a cycle below the root.
DgmSamples ==
  {NoDgm, Dgm("norelid", <<>>, <<>>), Dgm("missing", <<>>, <<>>),
   Dgm("malformed", <<>>, <<>>),
   Dgm("parsed", <<>>, <<>>),
   Dgm("parsed", <<Pt("node", "t", FALSE), Pt("node", "t", TRUE)>>, <<>>),
   Dgm("parsed", <<Pt("doc", "", FALSE), Pt("node", "t", FALSE), Pt("node", "t", FALSE)>>,
       <<Cxn(1, 2, "parOf"), Cxn(1, 3, "absent")>>),
   Dgm("parsed", <<Pt("doc", "", FALSE)>>, <<>>),
   Dgm("parsed", <<Pt("doc", "", FALSE), Pt("node", "t", FALSE), Pt("pres", "", TRUE)>>,
       <<Cxn(1, 2, "parOf"), Cxn(2, 3, "presOf"), Cxn(1, 3, "presParOf")>>),
   Dgm("parsed", <<Pt("doc", "", FALSE), Pt("node", "t", FALSE), Pt("node", "t", FALSE)>>,
       <<Cxn(1, 2, "parOf"), Cxn(2, 3, "parOf"), Cxn(3, 2, "parOf")>>)}

SampleTable == <<(<<"A", " ">>), (<<"t", "D">>)>>

\* A shape with nothing in it, at (0, 0).
PlainShape(id) ==
  [shape_id |-> id, name |-> "shape", has_top |-> TRUE, top |-> 0,
   has_left |-> TRUE, left |-> 0, video |-> NoVideo, has_table |-> FALSE,
   table |-> SampleTable, graphic |-> FALSE, dgm |-> NoDgm, image |-> "none",
   has_text_frame |-> FALSE, paras |-> <<>>, fault |-> "none"]

TextBox(id) == [PlainShape(id) EXCEPT !.has_text_frame = TRUE, !.paras = <<Para("t", "")>>]

Picture(id) == [TextBox(id) EXCEPT !.image = "blob"]

\* The kinds of shape of the slides whose shapes vary in position: two text
\* boxes, a table that also carries an external video, a picture, and again.
OrderKind(id) ==
  IF id % 4 \in {1, 2} THEN TextBox(id)
  ELSE IF id % 4 = 3
       THEN [TextBox(id) EXCEPT !.has_table = TRUE,
                                !.video = [NoVideo EXCEPT !.found = TRUE,
                                                          !.link = "https://youtu.be/x"]]
       ELSE Picture(id)

\* (has, value) of a coordinate attribute: missing, 0 or 1.
Coords == {<<FALSE, 0>>, <<TRUE, 0>>, <<TRUE, 1>>}

At(shape, t, l) ==
  [shape EXCEPT !.has_top = t[1], !.top = t[2], !.has_left = l[1], !.left = l[2]]

\* Slides of n shapes at any positions, any of them the title.
SlidesOfLen(n) ==
  {[slide_id |-> 1, title |-> ti,
    shapes |-> [i \in 1..n |-> At(OrderKind(i), tops[i], lefts[i])]] :
     tops \in [1..n -> Coords], lefts \in [1..n -> Coords], ti \in 0..n}

\* A graphic frame whose payload is one point with text and an icon, the
\* modelIds of the payload named by ids.
IconFrame(id, ids) ==
  [PlainShape(id) EXCEPT !.graphic = TRUE,
                         !.dgm = [Dgm("parsed", <<Pt("node", "t", TRUE)>>, <<>>)
                                    EXCEPT !.ids = ids]]

\* Slides of two diagrams, each with an icon.
IconSlides ==
  {[slide_id |-> 1, title |-> 0, shapes |-> <<IconFrame(1, a), IconFrame(2, b)>>] :
     a \in {"a", "b"}, b \in {"a", "b"}}

\* Slides of two shapes, the first with an operation that raises (reading a
\* table cell, shape.shape_type, or reading the paragraphs of the text
\* frame), the second a text box.
FaultSlides ==
  {[slide_id |-> 1, title |-> ti,
    shapes |-> <<[PlainShape(1) EXCEPT !.has_table = tb, !.image = im, !.fault = f,
                                       !.has_text_frame = TRUE,
                                       !.paras = <<Para("t", "")>>],
                 TextBox(2)>>] :
     tb \in BOOLEAN, im \in {"none", "blob"}, f \in {"table", "shape_type", "text"},
     ti \in 0..2}

\* Slides of one shape with any combination of capabilities, title or not.
ClassifySlides ==
  {[slide_id |-> 1, title |-> ti,
    shapes |-> <<[PlainShape(1) EXCEPT !.video = v, !.has_table = tb, !.graphic = g[1],
                                       !.dgm = g[2], !.image = im,
                                       !.has_text_frame = tf, !.paras = ps]>>] :
     v \in VideoKinds, tb \in BOOLEAN,
     g \in {<<FALSE, NoDgm>>} \cup {<<TRUE, d>> : d \in DgmSamples},
     im \in {"none", "blob", "nowrite"}, tf \in BOOLEAN, ps \in ParaSamples,
     ti \in 0..1}

\* The slides of the decks: a title over a picture (odd slides), a picture
\* with text whose image cannot be written, alone (even slides).
DeckSlide(id) ==
  [slide_id |-> id, title |-> IF id % 2 = 1 THEN 1 ELSE 0,
   shapes |-> IF id % 2 = 1 THEN <<TextBox(1), Picture(2)>>
              ELSE <<[TextBox(1) EXCEPT !.image = "nowrite"]>>]

\* The decks of 0 to MaxSlides slides.
Decks == {[i \in 1..n |-> DeckSlide(i)] : n \in 0..MaxSlides}

\* ================================================================= state
VARIABLES
  pc,                 \* where the extraction of the file stands
  prs,                \* the parsed document: [slides]
  mapping,            \* _get_sections_mapping: the list being built
  nread,              \* section entries read so far
  nrefs,              \* slide references read so far
  tiers,              \* the tiers entered so far, and "raised" marks
  sections_map,       \* extract: the sections to iterate
  processed_sections, \* extract: the Sections built
  section_slides,     \* extract: the slides of the section being built
  sec_i, slide_i,     \* extract: positions of the two loops
  slide_count, image_count,
  result,             \* the Presentation returned, <<>> before
  slide_in,           \* SlideSpec: the slide given to _process_slide
  slide_out,          \* SlideSpec: <<>>, then <<[slide_obj, imgs]>>
  dgm_in,             \* DiagramSpec: the diagram payload given to extract
  dgm_out,            \* DiagramSpec: <<>>, then <<[nodes, bt, f, result]>>
  dgm_again,          \* DiagramSpec: <<>>, then <<the filter run once more>>
  walk,               \* WalkSpec: the loop of step 4 and the walk within it
  files,              \* BatchSpec: the files discovered, in discovery order
  file_i,             \* BatchSpec: position of the loop over the files
  presentations       \* BatchSpec: the Presentations collected

vars == <<pc, prs, mapping, nread, nrefs, tiers, sections_map, processed_sections,
          section_slides, sec_i, slide_i, slide_count, image_count, result,
          slide_in, slide_out, dgm_in, dgm_out, dgm_again, walk,
          files, file_i, presentations>>

extractVars == <<sections_map, processed_sections, section_slides, sec_i, slide_i,
                 slide_count, image_count, result>>
slideVars == <<slide_in, slide_out>>
diagramVars == <<dgm_in, dgm_out, dgm_again, walk>>
batchVars == <<files, file_i, presentations>>

Title(name, n) == [name |-> name, n |-> n]

\* --------------------------------------------------- _get_sections_mapping
\* Line 68: hasattr(prs, 'sections') and len(prs.sections) > 0.
NativeProbe ==
  /\ pc = "sections"
  /\ \E has \in BOOLEAN :
       /\ pc' = IF has THEN "native" ELSE "fallback"
       /\ tiers' = IF has THEN tiers \cup {"native"} ELSE tiers
  /\ UNCHANGED <<prs, mapping, nread, nrefs, extractVars, slideVars, diagramVars, batchVars>>

\* Lines 70-73: one native section; its slides are slides of the deck.
NativeSection ==
  /\ pc = "native"
  /\ nread < MaxSections
  /\ \E slides \in SeqsUpTo(1..Len(prs.slides), MaxRefs - nrefs) :
       /\ mapping' = IF slides # <<>>
                     THEN Append(mapping, [title |-> Title("native", nread + 1),
                                           slides |-> slides])
                     ELSE mapping
       /\ nrefs' = nrefs + Len(slides)
  /\ nread' = nread + 1
  /\ UNCHANGED <<pc, prs, tiers, extractVars, slideVars, diagramVars, batchVars>>

\* Lines 75-76: an exception in the loop is logged; control reaches line 79
\* with mapping as the loop left it.
NativeRaise ==
  /\ pc = "native"
  /\ pc' = "fallback"
  /\ tiers' = tiers \cup {"native_raised"}
  /\ UNCHANGED <<prs, mapping, nread, nrefs, extractVars, slideVars, diagramVars, batchVars>>

\* Line 74: return mapping, after the loop over the len(prs.sections) > 0 sections.
NativeReturn ==
  /\ pc = "native"
  /\ nread >= 1
  /\ sections_map' = mapping
  /\ pc' = "default"
  /\ UNCHANGED <<prs, mapping, nread, nrefs, tiers, processed_sections, section_slides,
                 sec_i, slide_i, slide_count, image_count, result, slideVars, diagramVars, batchVars>>

\* Lines 80-89: the search for p14:sectionLst; without one, line 105 returns [].
FallbackLookup ==
  /\ pc = "fallback"
  /\ \E found \in BOOLEAN :
       IF found
       THEN /\ pc' = "fallback_loop"
            /\ UNCHANGED sections_map
       ELSE /\ pc' = "default"
            /\ sections_map' = <<>>
  /\ tiers' = tiers \cup {"fallback"}
  /\ UNCHANGED <<prs, mapping, nread, nrefs, processed_sections, section_slides,
                 sec_i, slide_i, slide_count, image_count, result, slideVars, diagramVars, batchVars>>

\* if sid in slide_id_to_slide: the slide ids of the deck are 1..Len(prs.slides).
RECURSIVE ResolveIds(_,_)
ResolveIds(ids, deck) ==
  IF ids = <<>> THEN <<>>
  ELSE (IF Head(ids) \in 1..Len(deck) THEN <<Head(ids)>> ELSE <<>>)
       \o ResolveIds(Tail(ids), deck)

\* Lines 90-100: one p14:section; ids are its sldId ids (none without sldIdLst).
FallbackSection ==
  /\ pc = "fallback_loop"
  /\ nread < MaxSections
  /\ \E ids \in SeqsUpTo(1..(MaxSlides + 1), MaxRefs - nrefs) :
       LET section_slides_ == ResolveIds(ids, prs.slides)
       IN /\ mapping' = IF section_slides_ # <<>>
                        THEN Append(mapping, [title |-> Title("fallback", nread + 1),
                                              slides |-> section_slides_])
                        ELSE mapping
          /\ nrefs' = nrefs + Len(ids)
  /\ nread' = nread + 1
  /\ UNCHANGED <<pc, prs, tiers, extractVars, slideVars, diagramVars, batchVars>>

\* Lines 102-105: an exception anywhere in the fallback is logged; return [].
FallbackRaise ==
  /\ pc \in {"fallback", "fallback_loop"}
  /\ pc' = "default"
  /\ sections_map' = <<>>
  /\ tiers' = tiers \cup {"fallback", "fallback_raised"}
  /\ UNCHANGED <<prs, mapping, nread, nrefs, processed_sections, section_slides,
                 sec_i, slide_i, slide_count, image_count, result, slideVars, diagramVars, batchVars>>

\* Line 101: return mapping, after the sections of the first p14:sectionLst.
FallbackReturn ==
  /\ pc = "fallback_loop"
  /\ sections_map' = mapping
  /\ pc' = "default"
  /\ UNCHANGED <<prs, mapping, nread, nrefs, tiers, processed_sections, section_slides,
                 sec_i, slide_i, slide_count, image_count, result, slideVars, diagramVars, batchVars>>

\* ----------------------------------------------------------------- extract
\* Lines 39-40: if not sections_map: one "Default" section of list(prs.slides).
DefaultSections(sm, deck) ==
  IF sm = <<>>
  THEN <<[title |-> Title("Default", 0), slides |-> [i \in 1..Len(deck) |-> i]]>>
  ELSE sm

ApplyDefault ==
  /\ pc = "default"
  /\ sections_map' = DefaultSections(sections_map, prs.slides)
  /\ pc' = "iterate"
  /\ UNCHANGED <<prs, mapping, nread, nrefs, tiers, processed_sections, section_slides,
                 sec_i, slide_i, slide_count, image_count, result, slideVars, diagramVars, batchVars>>

\* Line 45 and the order handed to _process_slide on line 46.
NextOrder(count) == count + 1

\* Lines 44-48: one slide of the current section (an exception raised by
\* _process_slide leaves extract; the slides of the decks raise none).
ProcessNextSlide ==
  /\ pc = "iterate"
  /\ sec_i <= Len(sections_map)
  /\ slide_i <= Len(sections_map[sec_i].slides)
  /\ \E r \in {ProcessSlide(prs.slides[sections_map[sec_i].slides[slide_i]],
                            NextOrder(slide_count))} :
        /\ ~r.raised
        /\ slide_count' = NextOrder(slide_count)
        /\ section_slides' = Append(section_slides, r.slide_obj)
        /\ image_count' = image_count + r.imgs
  /\ slide_i' = slide_i + 1
  /\ UNCHANGED <<pc, prs, mapping, nread, nrefs, tiers, sections_map, processed_sections,
                 sec_i, result, slideVars, diagramVars, batchVars>>

\* Lines 50-53: the Section of the slides just processed.
CloseSection ==
  /\ pc = "iterate"
  /\ sec_i <= Len(sections_map)
  /\ slide_i > Len(sections_map[sec_i].slides)
  /\ processed_sections' = Append(processed_sections,
                                  [title |-> sections_map[sec_i].title,
                                   slides |-> section_slides])
  /\ section_slides' = <<>>
  /\ sec_i' = sec_i + 1
  /\ slide_i' = 1
  /\ UNCHANGED <<pc, prs, mapping, nread, nrefs, tiers, sections_map,
                 slide_count, image_count, result, slideVars, diagramVars, batchVars>>

\* Lines 56-63: the metadata and the Presentation.
ReturnPresentation ==
  /\ pc = "iterate"
  /\ sec_i > Len(sections_map)
  /\ result' = <<[metadata |-> [stats |-> [slide_count |-> slide_count,
                                           image_count |-> image_count]],
                  sections |-> processed_sections]>>
  /\ pc' = "done"
  /\ UNCHANGED <<prs, mapping, nread, nrefs, tiers, sections_map, processed_sections,
                 section_slides, sec_i, slide_i, slide_count, image_count, slideVars, diagramVars, batchVars>>

Init ==
  /\ pc = "sections"
  /\ prs \in {[slides |-> d] : d \in Decks}
  /\ mapping = <<>> /\ nread = 0 /\ nrefs = 0 /\ tiers = {}
  /\ sections_map = <<>> /\ processed_sections = <<>> /\ section_slides = <<>>
  /\ sec_i = 1 /\ slide_i = 1 /\ slide_count = 0 /\ image_count = 0
  /\ result = <<>>
  /\ slide_in = <<>> /\ slide_out = <<>>
  /\ dgm_in = <<>> /\ dgm_out = <<>> /\ dgm_again = <<>> /\ walk = <<>>
  /\ files = <<>> /\ file_i = 1 /\ presentations = <<>>

Next ==
  \/ NativeProbe \/ NativeSection \/ NativeRaise \/ NativeReturn
  \/ FallbackLookup \/ FallbackSection \/ FallbackRaise \/ FallbackReturn
  \/ ApplyDefault \/ ProcessNextSlide \/ CloseSection \/ ReturnPresentation

Spec == Init /\ [][Next]_vars

\* --------------------------------------------------------- _process_slide
SlideInit ==
  /\ pc = "slide"
  /\ prs = [slides |-> <<>>]
  /\ mapping = <<>> /\ nread = 0 /\ nrefs = 0 /\ tiers = {}
  /\ sections_map = <<>> /\ processed_sections = <<>> /\ section_slides = <<>>
  /\ sec_i = 1 /\ slide_i = 1 /\ slide_count = 0 /\ image_count = 0
  /\ result = <<>>
  /\ \/ \E n \in 0..MaxShapes : slide_in \in SlidesOfLen(n)
     \/ slide_in \in ClassifySlides
     \/ slide_in \in IconSlides
     \/ slide_in \in FaultSlides
  /\ slide_out = <<>>
  /\ dgm_in = <<>> /\ dgm_out = <<>> /\ dgm_again = <<>> /\ walk = <<>>
  /\ files = <<>> /\ file_i = 1 /\ presentations = <<>>

\* _process_slide(slide, order, file_id, media_dir), called with order 1:
\* it returns, or an exception raised in the loop leaves it.
ProcessSlideCall ==
  /\ pc = "slide"
  /\ \E r \in {ProcessSlide(slide_in, 1)} :
       /\ slide_out' = IF r.raised THEN <<>> ELSE <<r>>
       /\ pc' = IF r.raised THEN "slide_raised" ELSE "slide_done"
  /\ UNCHANGED <<prs, mapping, nread, nrefs, tiers, extractVars, slide_in,
                 diagramVars, batchVars>>

SlideNext == ProcessSlideCall

SlideSpec == SlideInit /\ [][SlideNext]_vars

\* ------------------------------------------------ SmartArtExtractor.extract
\* Connection number i of the connections over n points with the types tys:
\* the types in turn, within a type the sources in turn, then the destinations.
CxnAt(n, tys, i) ==
  Cxn((((i - 1) % (n * n)) \div n) + 1, ((i - 1) % n) + 1, tys[((i - 1) \div (n * n)) + 1])

\* The increasing sequences of at most k numbers of 1..m.
RECURSIVE IncSeqs(_,_)
IncSeqs(m, k) ==
  IF k = 0 \/ m = 0 THEN {<<>>}
  ELSE IncSeqs(m - 1, k) \cup {Append(q, m) : q \in IncSeqs(m - 1, k - 1)}

CxnsAt(n, tys, idx) == [j \in DOMAIN idx |-> CxnAt(n, tys, idx[j])]

\* A payload of n points without icons, those of blank without text, joined
\* by parOf and presParOf connections.
TreeDgm(n, blank, idx) ==
  Dgm("parsed", [i \in 1..n |-> Pt("node", IF i \in blank THEN "" ELSE "t", FALSE)],
      CxnsAt(n, <<"parOf", "presParOf">>, idx))

\* A payload of n points with text, the first the doc point, those of icons
\* with an icon, point a[1] with presAssocID a[2], joined by presOf and
\* presParOf connections.
IconDgm(n, icons, a, idx) ==
  Dgm("parsed",
      [i \in 1..n |-> [Pt(IF i = 1 THEN "doc" ELSE "node", "t", i \in icons)
                         EXCEPT !.assoc = IF i = a[1] THEN a[2] ELSE NoId]],
      CxnsAt(n, <<"presOf", "presParOf">>, idx))

\* The payloads that give no diagram data.
FailedDgms ==
  {NoDgm, Dgm("norelid", <<>>, <<>>), Dgm("missing", <<>>, <<>>), Dgm("malformed", <<>>, <<>>)}

DiagramInit ==
  /\ pc = "dgm"
  /\ prs = [slides |-> <<>>]
  /\ mapping = <<>> /\ nread = 0 /\ nrefs = 0 /\ tiers = {}
  /\ sections_map = <<>> /\ processed_sections = <<>> /\ section_slides = <<>>
  /\ sec_i = 1 /\ slide_i = 1 /\ slide_count = 0 /\ image_count = 0
  /\ result = <<>>
  /\ slide_in = <<>> /\ slide_out = <<>>
  /\ \/ \E n \in 0..MaxPts : \E blank \in SUBSET ((1..n) \cap (1..2)) :
          \E idx \in IncSeqs(2 * n * n, MaxCxns) : dgm_in = TreeDgm(n, blank, idx)
     \/ \E n \in 1..MaxPts : \E icons \in SUBSET ((1..n) \cap (1..2)) :
          \E a \in {<<NoId, NoId>>} \cup (((1..n) \cap (1..2)) \X (1..n)) :
            \E idx \in IncSeqs(2 * n * n, MaxIconCxns) : dgm_in = IconDgm(n, icons, a, idx)
     \/ dgm_in \in FailedDgms
  /\ dgm_out = <<>> /\ dgm_again = <<>> /\ walk = <<>>
  /\ files = <<>> /\ file_i = 1 /\ presentations = <<>>

\* Line 84 on the tree built: [h, res].
FilterBuilt(bt) ==
  IF bt.err THEN [h |-> bt.h, res |-> <<>>]
  ELSE FilterEmptyNodes([h |-> bt.h, res |-> <<>>], bt.final, 1)

\* extract(shape, slide_part, file_id, media_output_dir): the result, and
\* beside it the node objects after step 4 (nodes), what _build_tree gave
\* (bt) and what _filter_empty_nodes gave (f).
ExtractDiagram ==
  /\ pc = "dgm"
  /\ \E nodes \in {IF dgm_in.kind = "parsed" THEN IconsAssigned(dgm_in) ELSE <<>>} :
       \E bt \in {BuildTree(nodes, StructuralConns(dgm_in.cxns),
                            PresentationPoints(VisualToDataMap(dgm_in),
                                               VisualParent(dgm_in.cxns)))} :
         \E f \in {FilterBuilt(bt)} :
           dgm_out' = <<[nodes |-> nodes, bt |-> bt, f |-> f,
                         result |-> IF dgm_in.kind # "parsed" \/ bt.err THEN <<>>
                                    ELSE ExtractResult(dgm_in.layout, f)]>>
  /\ pc' = "dgm_done"
  /\ UNCHANGED <<prs, mapping, nread, nrefs, tiers, extractVars, slideVars,
                 dgm_in, dgm_again, walk, batchVars>>

\* _filter_empty_nodes applied to the nodes it returned.
FilterAgain ==
  /\ pc = "dgm_done"
  /\ dgm_out[1].result # <<>>
  /\ dgm_again' = <<FilterEmptyNodes([h |-> dgm_out[1].f.h, res |-> <<>>],
                                     dgm_out[1].f.res, 1)>>
  /\ pc' = "dgm_again"
  /\ UNCHANGED <<prs, mapping, nread, nrefs, tiers, extractVars, slideVars,
                 dgm_in, dgm_out, walk, batchVars>>

DiagramNext == ExtractDiagram \/ FilterAgain

DiagramSpec == DiagramInit /\ [][DiagramNext]_vars

\* ------------------------------------------- step 4, one iteration at a time
\* The test of line 97 without the visited set.
WalkContinuesNoVisited(curr, visited) == curr # NoId

\* Line 97: while curr and curr not in visited.
WalkContinues(curr, visited) == curr # NoId /\ curr \notin visited

\* Lines 99-106 of one iteration of _find_data_owner: the owner returned by
\* the iteration at curr, NoId when it returns none; lines 102 and 107: the
\* point the walk goes to next.
WalkParent(curr, vpar) == IF curr \in DOMAIN vpar THEN vpar[curr] ELSE NoId

OwnerHere(curr, v2d, vpar, vchild, root_id) ==
  IF curr \in DOMAIN v2d /\ v2d[curr] # root_id THEN v2d[curr]
  ELSE LET parent == WalkParent(curr, vpar)
           sibs == IF parent # NoId /\ parent \in DOMAIN vchild THEN vchild[parent] ELSE <<>>
           hits == {k \in DOMAIN sibs : /\ sibs[k] # curr
                                         /\ sibs[k] \in DOMAIN v2d
                                         /\ v2d[sibs[k]] # root_id}
       IN IF hits # {} THEN v2d[sibs[SetMin(hits)]] ELSE NoId

\* walk is [mid, phase, curr, visited, owner, why, nodes, last]: mid the
\* position of the loop of line 64 over nodes_map, phase "loop" between two
\* iterations, "walk" inside _find_data_owner, "owner" once it returned;
\* why says how the walk stopped; last is <<>> or <<[mid, owner, before]>>,
\* the last pass through lines 66-73 with the node objects before it.
WalkInit ==
  /\ pc = "icons"
  /\ prs = [slides |-> <<>>]
  /\ mapping = <<>> /\ nread = 0 /\ nrefs = 0 /\ tiers = {}
  /\ sections_map = <<>> /\ processed_sections = <<>> /\ section_slides = <<>>
  /\ sec_i = 1 /\ slide_i = 1 /\ slide_count = 0 /\ image_count = 0
  /\ result = <<>>
  /\ slide_in = <<>> /\ slide_out = <<>>
  /\ \E n \in 1..MaxPts : \E icons \in SUBSET ((1..n) \cap (1..2)) :
       \E idx \in IncSeqs(2 * n * n, MaxIconCxns) :
         dgm_in = IconDgm(n, icons, <<NoId, NoId>>, idx)
  /\ dgm_out = <<>> /\ dgm_again = <<>>
  /\ walk = [mid |-> 1, phase |-> "loop", curr |-> NoId, visited |-> {},
             owner |-> NoId, why |-> "", nodes |-> ParsePoints(dgm_in.pts), last |-> <<>>]
  /\ files = <<>> /\ file_i = 1 /\ presentations = <<>>

\* Lines 64-66: the next node of nodes_map; a node with an icon starts the
\* walk at its own id, the end of the map ends step 4.
NextNode ==
  /\ pc = "icons" /\ walk.phase = "loop"
  /\ IF walk.mid > Len(walk.nodes)
     THEN pc' = "icons_done" /\ walk' = walk
     ELSE /\ pc' = pc
          /\ walk' = IF walk.nodes[walk.mid].icon = NoIcon
                     THEN [walk EXCEPT !.mid = @ + 1]
                     ELSE [walk EXCEPT !.phase = "walk", !.curr = walk.mid,
                                       !.visited = {}, !.owner = NoId, !.why = ""]
  /\ UNCHANGED <<prs, mapping, nread, nrefs, tiers, extractVars, slideVars,
                 dgm_in, dgm_out, dgm_again, batchVars>>

\* Lines 97-109: the test of the while loop, then one iteration or the
\* return of None.
WalkStep ==
  /\ pc = "icons" /\ walk.phase = "walk"
  /\ IF WalkContinues(walk.curr, walk.visited)
     THEN \E o \in {OwnerHere(walk.curr, VisualToDataMap(dgm_in), VisualParent(dgm_in.cxns),
                              VisualChildren(dgm_in.cxns), DataRootId(dgm_in.pts))} :
            walk' = IF o # NoId
                    THEN [walk EXCEPT !.phase = "owner", !.owner = o, !.why = "found",
                                      !.visited = @ \cup {walk.curr}]
                    ELSE [walk EXCEPT !.curr = WalkParent(walk.curr, VisualParent(dgm_in.cxns)),
                                      !.visited = @ \cup {walk.curr}]
     ELSE walk' = [walk EXCEPT !.phase = "owner", !.owner = NoId,
                               !.why = IF walk.curr = NoId THEN "noparent" ELSE "revisit"]
  /\ UNCHANGED <<pc, prs, mapping, nread, nrefs, tiers, extractVars, slideVars,
                 dgm_in, dgm_out, dgm_again, batchVars>>

\* Lines 67-73 with the owner returned, then the next node.
MoveOwner ==
  /\ pc = "icons" /\ walk.phase = "owner"
  /\ walk' = [walk EXCEPT !.nodes = MoveIcon(walk.nodes, walk.mid, walk.owner),
                          !.last = <<[mid |-> walk.mid, owner |-> walk.owner,
                                      before |-> walk.nodes]>>,
                          !.mid = @ + 1, !.phase = "loop"]
  /\ UNCHANGED <<pc, prs, mapping, nread, nrefs, tiers, extractVars, slideVars,
                 dgm_in, dgm_out, dgm_again, batchVars>>

WalkNext == NextNode \/ WalkStep \/ MoveOwner

\* The loops run on their own: a step that can be taken is taken.
WalkSpec == WalkInit /\ [][WalkNext]_vars /\ WF_vars(WalkNext)

\* ----------------------------------------------------------------- cli.main
\* A file discovered: extractor.extract returns its Presentation ("ok"), or
\* raises while the document is parsed ("corrupt") or while a slide is
\* processed ("shape_error").
FileLists(n) ==
  {[i \in 1..n |-> [name |-> i, outcome |-> o[i]]] :
     o \in [1..n -> {"ok", "corrupt", "shape_error"}]}

BatchInit ==
  /\ pc = "batch"
  /\ prs = [slides |-> <<>>]
  /\ mapping = <<>> /\ nread = 0 /\ nrefs = 0 /\ tiers = {}
  /\ sections_map = <<>> /\ processed_sections = <<>> /\ section_slides = <<>>
  /\ sec_i = 1 /\ slide_i = 1 /\ slide_count = 0 /\ image_count = 0
  /\ result = <<>>
  /\ slide_in = <<>> /\ slide_out = <<>>
  /\ dgm_in = <<>> /\ dgm_out = <<>> /\ dgm_again = <<>> /\ walk = <<>>
  /\ \E n \in 0..MaxFiles : files \in FileLists(n)
  /\ file_i = 1
  /\ presentations = <<>>

\* AfterFailure with the loop left at the first failure.
AfterFailureStop(i, n) == n + 1

\* The position of the loop after a file whose extraction raised (line 56).
AfterFailure(i, n) == i + 1

\* Lines 53-54: the file's Presentation is appended.
ExtractFile ==
  /\ pc = "batch"
  /\ file_i <= Len(files)
  /\ files[file_i].outcome = "ok"
  /\ presentations' = Append(presentations, [source_file |-> files[file_i].name])
  /\ file_i' = file_i + 1
  /\ UNCHANGED <<pc, prs, mapping, nread, nrefs, tiers, extractVars, slideVars,
                 diagramVars, files>>

\* Lines 55-56: the exception is logged and the loop goes on.
ExtractFails ==
  /\ pc = "batch"
  /\ file_i <= Len(files)
  /\ files[file_i].outcome # "ok"
  /\ file_i' = AfterFailure(file_i, Len(files))
  /\ UNCHANGED <<pc, prs, mapping, nread, nrefs, tiers, extractVars, slideVars,
                 diagramVars, files, presentations>>

\* Lines 58-60: the site is generated when a Presentation was collected.
Generate ==
  /\ pc = "batch"
  /\ file_i > Len(files)
  /\ pc' = IF presentations # <<>> THEN "generated" ELSE "nothing_generated"
  /\ UNCHANGED <<prs, mapping, nread, nrefs, tiers, extractVars, slideVars,
                 diagramVars, batchVars>>

BatchNext == ExtractFile \/ ExtractFails \/ Generate

BatchSpec == BatchInit /\ [][BatchNext]_vars

\* ================================================================ claims
\* The Presentation returned, and what its sections hold.
Done == result # <<>>
Sections == result[1].sections
OrdersOf(sections) ==
  Flatten([i \in DOMAIN sections |->
             [k \in DOMAIN sections[i].slides |-> sections[i].slides[k].order]])
SourcesOf(sections) ==
  Flatten([i \in DOMAIN sections |->
             [k \in DOMAIN sections[i].slides |-> sections[i].slides[k].src]])
OneTo(n) == [i \in 1..n |-> i]

\* C1: in every Presentation returned, the slide orders read section by
\* section are 1, 2, ..., N, where N is the number of slides over all sections
\* and the slide_count of the metadata.
C1_OrdersAreOneToN ==
  Done => /\ OrdersOf(Sections) = OneTo(Len(OrdersOf(Sections)))
          /\ Len(OrdersOf(Sections)) = result[1].metadata.stats.slide_count

\* C1 witness: a Presentation of two sections and three slides.
C1_Witness ==
  Done /\ Len(Sections) = 2 /\ Len(OrdersOf(Sections)) = 3

\* C2: the slides of the sections returned, concatenated, are the deck's
\* slides in the deck's order, none missing and none twice.
C2_SectionsCoverDeck ==
  Done => SourcesOf(Sections) = OneTo(Len(prs.slides))

\* C3: when the native tier raised, no section of the Presentation comes from
\* the native tier: the sections are those of the fallback alone, or Default.
C3_FailedNativeContributesNothing ==
  (Done /\ "native_raised" \in tiers)
    => \A i \in DOMAIN Sections : Sections[i].title.name # "native"

\* C4: the Default section is emitted only after the declarative fallback was
\* consulted (and gave no section), and it is then the only section, holding
\* all slides in the deck's order.
C4_DefaultOnlyAfterFallback ==
  Done => \A i \in DOMAIN Sections :
            Sections[i].title.name = "Default"
              => /\ "fallback" \in tiers
                 /\ Len(Sections) = 1
                 /\ SourcesOf(Sections) = OneTo(Len(prs.slides))

\* C5: every Section of the Presentation returned holds at least one Slide.
C5_SectionsNonEmpty ==
  Done => \A i \in DOMAIN Sections : Sections[i].slides # <<>>

\* The Slide returned by _process_slide, and the blocks of one shape.
SlideDone == slide_out # <<>>
Content == slide_out[1].slide_obj.content
InShapes == slide_in.shapes
IsTitleShape(i) == slide_in.title # 0 /\ InShapes[i].shape_id = InShapes[slide_in.title].shape_id
ShapeIndex(id) == CHOOSE i \in DOMAIN InShapes : InShapes[i].shape_id = id
BlocksOf(i, bys) ==
  SelectSeq(Content, LAMBDA b : b.of = InShapes[i].shape_id /\ b.by \in bys)
ClassBranches == {"table", "smartart", "image", "text"}
TypesOf(blocks) == [k \in DOMAIN blocks |-> blocks[k].type]
Coord(has, v) == IF has THEN v ELSE 0

\* Shape i goes before shape j in reading order: (top, left) ascending with a
\* missing coordinate read as 0, and the order of encounter on a tie.
ReadsBefore(i, j) ==
  LET ti == Coord(InShapes[i].has_top, InShapes[i].top)
      tj == Coord(InShapes[j].has_top, InShapes[j].top)
      li == Coord(InShapes[i].has_left, InShapes[i].left)
      lj == Coord(InShapes[j].has_left, InShapes[j].left)
  IN \/ ti < tj
     \/ ti = tj /\ li < lj
     \/ ti = tj /\ li = lj /\ i <= j

TitleHasText == slide_in.title # 0 /\ ~FrameIsBlank(InShapes[slide_in.title].paras)
TitleHasLink ==
  /\ TitleHasText
  /\ InShapes[slide_in.title].has_text_frame
  /\ \E k \in DOMAIN InShapes[slide_in.title].paras : InShapes[slide_in.title].paras[k].url # ""
NTitleBlocks == IF TitleHasLink THEN 2 ELSE IF TitleHasText THEN 1 ELSE 0

DiagramTried(i) == ~IsTitleShape(i) /\ ~InShapes[i].has_table /\ InShapes[i].graphic
DiagramResolved(i) == DiagramTried(i) /\ SmartArtExtract(InShapes[i].dgm) # <<>>
DiagramFailed(i) ==
  /\ DiagramTried(i)
  /\ InShapes[i].dgm.kind \in {"norelid", "missing", "malformed", "parsed"}
  /\ SmartArtExtract(InShapes[i].dgm) = <<>>

\* The branch of the priority table that applies to shape i: the first of
\* table, diagram (resolved), image (persisted), text (non-blank).
BranchThatApplies(i) ==
  IF InShapes[i].has_table THEN <<"table">>
  ELSE IF DiagramResolved(i) THEN <<"smart_art">>
  ELSE IF InShapes[i].image = "blob" THEN <<"image">>
  ELSE IF InShapes[i].has_text_frame /\ ~FrameIsBlank(InShapes[i].paras) THEN <<"list">>
  ELSE <<>>

\* C7: apart from the video probe, a non-title shape contributes at most one
\* block among Table, SmartArt, Image and List, the block of the first branch
\* that applies in the order table, diagram, image, text; the title shape
\* contributes none.
C7_FirstBranchWins ==
  SlideDone =>
    \A i \in DOMAIN InShapes :
      TypesOf(BlocksOf(i, ClassBranches))
        = IF IsTitleShape(i) THEN <<>> ELSE BranchThatApplies(i)

\* C7 witness: a shape that is a table, has an image and has text, and gives
\* a Table block alone.
C7_Witness ==
  /\ SlideDone
  /\ \E i \in DOMAIN InShapes :
       /\ ~IsTitleShape(i)
       /\ InShapes[i].has_table /\ InShapes[i].image = "blob"
       /\ InShapes[i].has_text_frame /\ ~FrameIsBlank(InShapes[i].paras)
       /\ TypesOf(BlocksOf(i, ClassBranches)) = <<"table">>

\* C8: the video probe runs for every shape, the title shape included, and
\* apart from the other branches: a shape with a video reference whose
\* external link resolves to an http/https target gives one Link block with
\* that url and no Video block; otherwise one whose embedded media is
\* persisted gives one Video block and no Link block; never both; a shape
\* without a video reference gives neither.
C8_VideoProbeIndependent ==
  SlideDone =>
    \A i \in DOMAIN InShapes :
      LET v == InShapes[i].video
          vb == BlocksOf(i, {"video"})
      IN /\ Len(vb) <= 1
         /\ ~v.found => vb = <<>>
         /\ (v.found /\ v.link \in {"http://v", "https://youtu.be/x"})
              => (TypesOf(vb) = <<"link">> /\ vb[1].url = v.link)
         /\ (v.found /\ v.link \in {"", "local.mp4"} /\ v.media = "ok")
              => TypesOf(vb) = <<"video">>

\* C8 witness: the title shape, which is also a table, carries a video linked
\* to https://youtu.be/x, and the slide holds that Link and no Video block.
C8_Witness ==
  /\ SlideDone
  /\ Len(InShapes) = 1 /\ slide_in.title = 1
  /\ InShapes[1].has_table
  /\ InShapes[1].video.found /\ InShapes[1].video.link = "https://youtu.be/x"
  /\ InShapes[1].video.media = "ok"
  /\ \E k \in DOMAIN Content :
       Content[k].by = "video" /\ Content[k].type = "link"
       /\ Content[k].url = "https://youtu.be/x"
  /\ \A k \in DOMAIN Content : Content[k].type # "video"

\* C9: a graphics-frame shape whose diagram resolution fails emits no block
\* from the table, diagram, image and text branches.
C9_FailedDiagramEmitsNothing ==
  SlideDone =>
    \A i \in DOMAIN InShapes :
      DiagramFailed(i) => BlocksOf(i, ClassBranches) = <<>>

\* C10: a diagram whose payload has no doc-typed root point, or no
\* connections, or no points gives no result from the resolver, and no
\* SmartArt block is added for its shape.
C10_DegenerateDiagramOmitted ==
  SlideDone =>
    \A i \in DOMAIN InShapes :
      (/\ DiagramTried(i)
       /\ InShapes[i].dgm.kind = "parsed"
       /\ \/ DataRootId(InShapes[i].dgm.pts) = NoId
          \/ InShapes[i].dgm.cxns = <<>>
          \/ InShapes[i].dgm.pts = <<>>)
        => /\ SmartArtExtract(InShapes[i].dgm) = <<>>
           /\ BlocksOf(i, {"smartart"}) = <<>>

\* The diagram resolved, what extract returned and the forest in it.
DgmDone == dgm_out # <<>>
DgmParsed == DgmDone /\ dgm_in.kind = "parsed"
DgmReturned == DgmDone /\ dgm_out[1].result # <<>>
DgmForest == dgm_out[1].result[1].nodes
DgmPres == PresentationPoints(VisualToDataMap(dgm_in), VisualParent(dgm_in.cxns))
DgmRoots == StructuralRoots(dgm_out[1].nodes, StructuralConns(dgm_in.cxns), DgmPres)

\* The ids of the nodes of a forest of node dicts.
RECURSIVE IdsIn(_)
IdsIn(forest) ==
  UNION {{forest[k].id} \cup IdsIn(forest[k].children) : k \in DOMAIN forest}

\* Every child of every node of the forest is one level below its parent.
RECURSIVE LevelsStep(_)
LevelsStep(forest) ==
  \A k \in DOMAIN forest :
    /\ \A c \in DOMAIN forest[k].children :
         forest[k].children[c].level = forest[k].level + 1
    /\ LevelsStep(forest[k].children)

Collapsible(n) == Strip(n.text) = "" /\ n.icon = NoIcon /\ n.children # <<>>

\* C12: the top-level nodes of the tree built are the children of the root
\* when there is one structural root and it is textless, iconless and has
\* children, and the structural roots themselves otherwise, in particular
\* whenever there are two or more structural roots.
C12_CollapseOnlySingleRoot ==
  (DgmParsed /\ ~dgm_out[1].bt.err)
    => dgm_out[1].bt.final
         = IF Len(DgmRoots) = 1 /\ Collapsible(dgm_out[1].bt.h[DgmRoots[1]])
           THEN dgm_out[1].bt.h[DgmRoots[1]].children
           ELSE DgmRoots

\* C13: the empty-node filter applied to the nodes it returned gives the
\* same nodes, with the same children in the same order.
C13_FilterIdempotent ==
  dgm_again # <<>>
    => /\ dgm_again[1].res = dgm_out[1].f.res
       /\ dgm_again[1].h = dgm_out[1].f.h

\* C13 witness: the first run of the filter removed a node from a tree of
\* which it kept a part, and the filter was run again.
C13_Witness ==
  /\ dgm_again # <<>>
  /\ dgm_out[1].f.res # <<>>
  /\ dgm_out[1].f.h # dgm_out[1].bt.h

\* C14: after the icon reassignment pass every icon extracted for a point is
\* attached to exactly one node, and no node holds an icon that no point had.
C14_IconsNeverDuplicated ==
  DgmParsed
    => /\ \A k \in DOMAIN dgm_in.pts :
            dgm_in.pts[k].icon
              => Cardinality({n \in DOMAIN dgm_out[1].nodes :
                                dgm_out[1].nodes[n].icon = k}) = 1
       /\ \A n \in DOMAIN dgm_out[1].nodes :
            dgm_out[1].nodes[n].icon # NoIcon
              => dgm_in.pts[dgm_out[1].nodes[n].icon].icon

\* C14 witness: two points carried an icon and the pass moved one of them to
\* another node.
C14_Witness ==
  /\ DgmParsed
  /\ Cardinality({k \in DOMAIN dgm_in.pts : dgm_in.pts[k].icon}) = 2
  /\ \E n \in DOMAIN dgm_out[1].nodes :
       dgm_out[1].nodes[n].icon \notin {NoIcon, n}

\* The Presentations of the files before position i whose extraction
\* succeeds, in discovery order.
RECURSIVE SucceededBefore(_,_)
SucceededBefore(fs, i) ==
  IF i <= 1 THEN <<>>
  ELSE SucceededBefore(fs, i - 1)
       \o (IF fs[i - 1].outcome = "ok" THEN <<[source_file |-> fs[i - 1].name]>> ELSE <<>>)

\* C15: while the loop runs the Presentations collected are those of the
\* files already attempted whose extraction succeeded, in discovery order;
\* when it ends every file was attempted, so they are those of all the files
\* whose extraction succeeded, whichever files raised.
C15_FailuresIsolated ==
  pc \in {"batch", "generated", "nothing_generated"}
    => /\ file_i <= Len(files) + 1
       /\ presentations = SucceededBefore(files, file_i)
       /\ pc # "batch" => presentations = SucceededBefore(files, Len(files) + 1)

\* C15 witness: the second of three files raised, and the first and the
\* third are the Presentations collected.
C15_Witness ==
  /\ pc = "generated"
  /\ Len(files) = 3
  /\ files[1].outcome = "ok" /\ files[2].outcome # "ok" /\ files[3].outcome = "ok"
  /\ presentations = <<[source_file |-> 1], [source_file |-> 3]>>

\* C18: no endpoint of a presParOf connection, source or destination, is a
\* node of the forest returned, at the top level or below.
C18_NoPresentationPointInTree ==
  DgmReturned
    => \A j \in DOMAIN dgm_in.cxns :
         dgm_in.cxns[j].type = "presParOf"
           => /\ dgm_in.cxns[j].src \notin IdsIn(DgmForest)
              /\ dgm_in.cxns[j].dest \notin IdsIn(DgmForest)

\* The sources of the parOf connections into point d.
ParOfSources(d) ==
  {dgm_in.cxns[j].src : j \in {k \in DOMAIN dgm_in.cxns :
                                 /\ dgm_in.cxns[k].type \in {"parOf", "absent"}
                                 /\ dgm_in.cxns[k].dest = d}}

\* C19: a data point with text whose parOf parents are all presentation
\* points is a structural root: it is a top-level node of the forest returned.
C19_PresentationParentIgnored ==
  DgmReturned
    => \A d \in DOMAIN dgm_in.pts :
         (/\ d \notin DgmPres
          /\ Strip(dgm_in.pts[d].text) # ""
          /\ ParOfSources(d) # {}
          /\ ParOfSources(d) \subseteq DgmPres)
           => \E k \in DOMAIN DgmForest : DgmForest[k].id = d

\* C20: in the forest returned the level of every child is the level of its
\* parent plus one.
C20_ChildLevelIsParentPlusOne ==
  DgmReturned => LevelsStep(DgmForest)

\* The call of _process_slide is over, by a return or by an exception.
SlideCallOver == pc \in {"slide_done", "slide_raised"}

\* Classifying shape i fails: the shape is not the title and the first
\* branch it reaches contains the operation that raises.
ClassifyFails(i) ==
  /\ ~IsTitleShape(i)
  /\ \/ InShapes[i].fault = "table" /\ InShapes[i].has_table
     \/ InShapes[i].fault = "shape_type" /\ ~InShapes[i].has_table
     \/ /\ InShapes[i].fault = "text"
        /\ ~InShapes[i].has_table /\ ~InShapes[i].graphic /\ InShapes[i].image # "blob"
        /\ InShapes[i].has_text_frame /\ ~FrameIsBlank(InShapes[i].paras)

\* C16: a failure while classifying one shape is contained at that shape: the
\* slide is still produced, the failing shape emits no block of the table,
\* diagram, image or text branch, and every other shape still emits the block
\* of the branch that applies to it.
C16_ShapeFailureContained ==
  (SlideCallOver /\ \E i \in DOMAIN InShapes : ClassifyFails(i)) =>
    /\ SlideDone
    /\ \A i \in DOMAIN InShapes :
         IF ClassifyFails(i) THEN BlocksOf(i, ClassBranches) = <<>>
         ELSE IsTitleShape(i) \/ TypesOf(BlocksOf(i, ClassBranches)) = BranchThatApplies(i)

\* The files written by the call of _process_slide.
Writes == slide_out[1].writes

\* C17: no two distinct media blobs (image, video, diagram icon) of the
\* shapes of a slide are written to the same path.
C17_MediaNamesNeverCollide ==
  SlideDone =>
    \A j, k \in DOMAIN Writes :
      Writes[j].path = Writes[k].path => Writes[j].blob = Writes[k].blob

\* No node of a forest of node dicts is among its own descendants.
RECURSIVE NoOwnAncestor(_)
NoOwnAncestor(forest) ==
  \A k \in DOMAIN forest :
    /\ forest[k].id \notin IdsIn(forest[k].children)
    /\ NoOwnAncestor(forest[k].children)

\* C21: for every parOf graph of a parsed payload, one with a cycle
\* reachable from a structural root included, the tree build ends with a
\* result (the recursion of build stays within the number of nodes) and in
\* the forest returned no node is its own ancestor.
C21_BuildEndsOnCycles ==
  DgmParsed
    => /\ ~dgm_out[1].bt.err
       /\ DgmReturned
       /\ NoOwnAncestor(DgmForest)

\* The walk of _find_data_owner has returned.
WalkReturned == walk # <<>> /\ walk.phase = "owner"

\* C22: the icon-owner walk ends for every presentation-parent graph, cyclic
\* ones included; it ends with an owner found, or at a point without a
\* presentation parent, or at a point already visited, in the last two cases
\* with no owner; an owner returned is a presOf source other than the data
\* root.
C22_WalkTerminates ==
  /\ [](walk # <<>> /\ walk.phase = "walk" => <>WalkReturned)
  /\ [](WalkReturned =>
          /\ walk.why \in {"found", "noparent", "revisit"}
          /\ walk.why = "found" <=> walk.owner # NoId
          /\ walk.why = "noparent" => walk.curr = NoId
          /\ walk.why = "revisit" => walk.curr \in walk.visited
          /\ walk.owner # NoId =>
               /\ walk.owner # DataRootId(dgm_in.pts)
               /\ \E j \in DOMAIN dgm_in.cxns :
                    dgm_in.cxns[j].type = "presOf" /\ dgm_in.cxns[j].src = walk.owner)

\* C22 witness: a walk that went round a cycle of two presentation parents
\* and stopped at the point it had started from, with no owner.
C22_Witness ==
  /\ WalkReturned
  /\ walk.why = "revisit" /\ walk.curr = walk.mid
  /\ Cardinality(walk.visited) = 2
  /\ walk.owner = NoId

\* The last pass through lines 66-73: the node objects before it, and
\* whether the owner found is another point that had no icon.
LastMove == walk.last[1]
OwnerTakes ==
  /\ LastMove.owner # NoId /\ LastMove.owner # LastMove.mid
  /\ LastMove.before[LastMove.owner].icon = NoIcon

\* C23: when the walk finds an owner other than the original point and the
\* owner has no icon, the owner gets the icon and alt text of the original
\* point, whose icon fields become empty; when no owner is found, the owner
\* is the point itself or the owner has an icon, no icon or alt text
\* changes.  Nothing else of any node changes in either case.
C23_IconMovedOnlyToFreeOwner ==
  (walk # <<>> /\ walk.last # <<>>) =>
    IF OwnerTakes
    THEN walk.nodes =
           [LastMove.before EXCEPT
              ![LastMove.owner].icon = LastMove.before[LastMove.mid].icon,
              ![LastMove.owner].icon_alt = LastMove.before[LastMove.mid].icon_alt,
              ![LastMove.mid].icon = NoIcon,
              ![LastMove.mid].icon_alt = NoIcon]
    ELSE walk.nodes = LastMove.before

\* C23 witness: the icon of one point was moved to an owner, and in the same
\* run the icon of a point whose owner had an icon stayed where it was.
C23_Witness ==
  /\ walk # <<>> /\ walk.last # <<>>
  /\ LastMove.owner # NoId /\ LastMove.owner # LastMove.mid
  /\ LastMove.before[LastMove.owner].icon # NoIcon
  /\ walk.nodes = LastMove.before
  /\ \E n \in DOMAIN walk.nodes : walk.nodes[n].icon \notin {NoIcon, n}

\* The Slides of the Presentation returned, section by section, and the
\* blocks of a Slide that the image and text branches gave for a shape.
SlidesOut == Flatten([i \in DOMAIN Sections |-> Sections[i].slides])
PictureBlocks(sl, shape) ==
  TypesOf(SelectSeq(sl.content, LAMBDA b : b.of = shape.shape_id /\ b.by \in {"image", "text"}))

\* C24: in every Presentation returned, a shape that reaches the image
\* branch and whose image bytes are persisted gives exactly one Image block;
\* one whose persisting fails gives no Image block and is classified by the
\* text branch (a List block when its text is not blank); and the
\* image_count of the metadata is the number of Image blocks of the
\* Presentation.
C24_ImageCountMatchesBlocks ==
  Done =>
    /\ result[1].metadata.stats.image_count
         = SumSeq([k \in DOMAIN SlidesOut |->
                     Cardinality({b \in DOMAIN SlidesOut[k].content :
                                    SlidesOut[k].content[b].type = "image"})])
    /\ \A k \in DOMAIN SlidesOut :
         LET slide == prs.slides[SlidesOut[k].src]
         IN \A j \in DOMAIN slide.shapes :
              (j # slide.title /\ ~slide.shapes[j].has_table /\ ~slide.shapes[j].graphic)
                => PictureBlocks(SlidesOut[k], slide.shapes[j])
                     = IF slide.shapes[j].image = "blob" THEN <<"image">>
                       ELSE IF slide.shapes[j].has_text_frame
                               /\ ~FrameIsBlank(slide.shapes[j].paras)
                            THEN <<"list">> ELSE <<>>

\* C24 witness: a Presentation of two slides, the picture of the first
\* persisted, the picture of the second not: one Image block, then a List
\* block, and an image_count of 1.
C24_Witness ==
  /\ Done
  /\ Len(SlidesOut) = 2
  /\ SlidesOut[1].src = 1 /\ SlidesOut[2].src = 2
  /\ prs.slides[1].shapes[2].image = "blob"
  /\ prs.slides[2].shapes[1].image = "nowrite"
  /\ PictureBlocks(SlidesOut[1], prs.slides[1].shapes[2]) = <<"image">>
  /\ PictureBlocks(SlidesOut[2], prs.slides[2].shapes[1]) = <<"list">>
  /\ result[1].metadata.stats.image_count = 1

====
